---- MODULE Spec2Model ----
(***************************************************************************)
(* examples/split_silence.py: split a recording into chunks at the points  *)
(* where the engine's silencedetect filter reports silence.                *)
(*                                                                         *)
(* Text is a sequence of one-character strings.  A time is a fixed-point   *)
(* number of 1/Scale seconds.  An optional value (Python None or a value)  *)
(* is the empty sequence or a one-element sequence.                        *)
(***************************************************************************)
EXTENDS Integers, Sequences, FiniteSets, TLC

\* the longest diagnostic stream of the general specifications
MaxLines == 3

Scale == 10 * 10

None == <<>>
Some(v) == <<v>>
IsNone(o) == o = <<>>
Val(o) == o[1]

Min(S) == CHOOSE x \in S : \A y \in S : x <= y

----------------------------------------------------------------------------
(* Text, and the three patterns of lines 34-37.                            *)

DigitChars == {"0", "1", "2", "3", "4", "5", "6", "7", "8", "9"}

DigitVal(c) ==
    CASE c = "0" -> 0 [] c = "1" -> 1 [] c = "2" -> 2 [] c = "3" -> 3
      [] c = "4" -> 4 [] c = "5" -> 5 [] c = "6" -> 6 [] c = "7" -> 7
      [] c = "8" -> 8 [] c = "9" -> 9

DigitChar(d) ==
    CASE d = 0 -> "0" [] d = 1 -> "1" [] d = 2 -> "2" [] d = 3 -> "3"
      [] d = 4 -> "4" [] d = 5 -> "5" [] d = 6 -> "6" [] d = 7 -> "7"
      [] d = 8 -> "8" [] d = 9 -> "9"

SilenceStartLit == <<" ","s","i","l","e","n","c","e","_","s","t","a","r","t",":"," ">>
SilenceEndLit == <<" ","s","i","l","e","n","c","e","_","e","n","d",":"," ">>
SizeLit == <<"s","i","z","e","=">>
TimeLit == <<" ","t","i","m","e","=">>
BitrateLit == <<" ","b","i","t","r","a","t","e","=">>

\* the literal lit stands in line at position p
HasLit(line, p, lit) ==
    /\ p >= 1
    /\ p + Len(lit) - 1 <= Len(line)
    /\ SubSeq(line, p, p + Len(lit) - 1) = lit

\* [0-9]*: the position after the longest run of digits that starts at p
RECURSIVE DigitsEnd(_, _)
DigitsEnd(line, p) ==
    IF p <= Len(line) /\ line[p] \in DigitChars THEN DigitsEnd(line, p + 1) ELSE p

\* [^ ]*: the position after the longest run of non-blanks that starts at p
RECURSIVE NonBlankEnd(_, _)
NonBlankEnd(line, p) ==
    IF p <= Len(line) /\ line[p] # " " THEN NonBlankEnd(line, p + 1) ELSE p

\* [0-9]+(\.?[0-9]*) matched greedily at q: the position after it, 0 for no match.
\* Both patterns that use it go on with something that is neither a digit nor a
\* dot (a blank, the end of the line), so no shorter match can succeed instead.
NumberEnd(line, q) ==
    LET a == DigitsEnd(line, q) IN
    IF a = q THEN 0
    ELSE IF a <= Len(line) /\ line[a] = "." THEN DigitsEnd(line, a + 1) ELSE a

\* line 34: ' silence_start: (?P<start>[0-9]+(\.?[0-9]*))$' searched in line;
\* the match's group 'start', or None
silence_start_re(line) ==
    LET n == Len(SilenceStartLit)
        ps == {p \in 1..Len(line) :
                  /\ HasLit(line, p, SilenceStartLit)
                  /\ NumberEnd(line, p + n) = Len(line) + 1}
    IN  IF ps = {} THEN None
        ELSE Some(SubSeq(line, Min(ps) + n, Len(line)))

\* line 35: ' silence_end: (?P<end>[0-9]+(\.?[0-9]*)) ' searched in line;
\* the match's group 'end', or None
silence_end_re(line) ==
    LET n == Len(SilenceEndLit)
        ps == {p \in 1..Len(line) :
                  /\ HasLit(line, p, SilenceEndLit)
                  /\ NumberEnd(line, p + n) # 0
                  /\ NumberEnd(line, p + n) <= Len(line)
                  /\ line[NumberEnd(line, p + n)] = " "}
    IN  IF ps = {} THEN None
        ELSE LET p == Min(ps) IN Some(SubSeq(line, p + n, NumberEnd(line, p + n) - 1))

\* lines 36-37: 'size=[^ ]+ time=(?P<hours>[0-9]{2}):(?P<minutes>[0-9]{2}):
\* (?P<seconds>[0-9\.]{5}) bitrate=' searched in line; the groups, or None
total_duration_re(line) ==
    LET t(p) == NonBlankEnd(line, p + Len(SizeLit))
        q(p) == t(p) + Len(TimeLit)
        ps == {p \in 1..Len(line) :
                  /\ HasLit(line, p, SizeLit)
                  /\ t(p) > p + Len(SizeLit)
                  /\ HasLit(line, t(p), TimeLit)
                  /\ HasLit(line, q(p) + 11, BitrateLit)
                  /\ line[q(p)] \in DigitChars /\ line[q(p) + 1] \in DigitChars
                  /\ line[q(p) + 2] = ":"
                  /\ line[q(p) + 3] \in DigitChars /\ line[q(p) + 4] \in DigitChars
                  /\ line[q(p) + 5] = ":"
                  /\ \A j \in 6..10 : line[q(p) + j] \in DigitChars \cup {"."}}
    IN  IF ps = {} THEN None
        ELSE LET p == Min(ps) IN
             Some([hours   |-> SubSeq(line, q(p), q(p) + 1),
                   minutes |-> SubSeq(line, q(p) + 3, q(p) + 4),
                   seconds |-> SubSeq(line, q(p) + 6, q(p) + 10)])

\* int(text) of a text of digits
RECURSIVE ParseInt(_)
ParseInt(txt) ==
    IF txt = <<>> THEN 0
    ELSE 10 * ParseInt(SubSeq(txt, 1, Len(txt) - 1)) + DigitVal(txt[Len(txt)])

\* float(text) raises ValueError unless text is digits with at most one dot
\* and at least one digit (the only texts the patterns' groups can hold)
IsFloatText(txt) ==
    /\ \A j \in 1..Len(txt) : txt[j] \in DigitChars \cup {"."}
    /\ Cardinality({j \in 1..Len(txt) : txt[j] = "."}) <= 1
    /\ \E j \in 1..Len(txt) : txt[j] \in DigitChars

\* faulty variant: int where float is meant: the decimals are lost
ParseFloatWhole(txt) ==
    LET dots == {j \in 1..Len(txt) : txt[j] = "."}
        d    == IF dots = {} THEN Len(txt) + 1 ELSE Min(dots)
    IN  ParseInt(SubSeq(txt, 1, d - 1)) * Scale

\* float(text), in 1/Scale seconds: exact for a text with at most two
\* significant decimals, which is all the streams below hold
ParseFloat(txt) ==
    LET dots == {j \in 1..Len(txt) : txt[j] = "."}
        d    == IF dots = {} THEN Len(txt) + 1 ELSE Min(dots)
        ip   == SubSeq(txt, 1, d - 1)
        fp   == SubSeq(txt, d + 1, Len(txt))
    IN  ParseInt(ip) * Scale
          + (IF Len(fp) >= 1 THEN DigitVal(fp[1]) * (Scale \div 10) ELSE 0)
          + (IF Len(fp) >= 2 THEN DigitVal(fp[2]) * (Scale \div 100) ELSE 0)

----------------------------------------------------------------------------
(* The reconstruction of the chunk times, lines 70-98.                     *)

\* line 96, 'end_time or 10000000.': the fallback end
Sentinel == 10000000 * Scale

\* Python's 'x or d' for an optional number x: d when x is None or zero
PyOr(x, d) == IF IsNone(x) \/ Val(x) = 0 THEN d ELSE Val(x)

\* faulty variant: the start of a leading non-silent chunk is never put in
ChunkStartsNeverInserted(starts, st) == starts

\* faulty variant: the start time is put in at every silence start
ChunkStartsAlwaysInserted(starts, st) == Append(starts, PyOr(st, 0))

\* lines 79-81: what a silence start does to chunk_starts
ChunkStartsOnSilenceStart(starts, st) ==
    IF Len(starts) = 0 THEN Append(starts, PyOr(st, 0)) ELSE starts

\* line 88: hours * 3600 + minutes * 60 + seconds
TotalDuration(hours, minutes, seconds) ==
    hours * 3600 * Scale + minutes * 60 * Scale + seconds

\* faulty variant: a line is matched against the silence-end pattern even
\* when it matched the silence-start pattern
ScanStepIndependent(acc, st, line) ==
    LET silence_start_match  == silence_start_re(line)
        silence_end_match    == silence_end_re(line)
        afterStart == IF ~IsNone(silence_start_match)
                      THEN [acc EXCEPT
                              !.chunk_ends = Append(@, ParseFloat(Val(silence_start_match))),
                              !.chunk_starts = ChunkStartsOnSilenceStart(@, st)]
                      ELSE acc
    IN  IF ~IsNone(silence_end_match)
        THEN [afterStart EXCEPT
                !.chunk_starts = Append(@, ParseFloat(Val(silence_end_match)))]
        ELSE afterStart

\* faulty variant: a chunk starts where silence starts and ends where it ends
ScanStepRolesSwapped(acc, st, line) ==
    LET silence_start_match  == silence_start_re(line)
        silence_end_match    == silence_end_re(line)
    IN  IF ~IsNone(silence_start_match) THEN
            [acc EXCEPT !.chunk_starts = Append(@, ParseFloat(Val(silence_start_match)))]
        ELSE IF ~IsNone(silence_end_match) THEN
            [acc EXCEPT !.chunk_ends = Append(@, ParseFloat(Val(silence_end_match)))]
        ELSE acc

\* lines 74-88, the body of the loop for one line.  acc holds chunk_starts,
\* chunk_ends, end_time and raised (the exception that ended the scan, or "").
ScanStep(acc, st, line) ==
    LET silence_start_match  == silence_start_re(line)
        silence_end_match    == silence_end_re(line)
        total_duration_match == total_duration_re(line)
    IN  IF ~IsNone(silence_start_match) THEN
            [acc EXCEPT !.chunk_ends = Append(@, ParseFloat(Val(silence_start_match))),
                        !.chunk_starts = ChunkStartsOnSilenceStart(@, st)]
        ELSE IF ~IsNone(silence_end_match) THEN
            [acc EXCEPT !.chunk_starts = Append(@, ParseFloat(Val(silence_end_match)))]
        ELSE IF ~IsNone(total_duration_match) THEN
            LET g == Val(total_duration_match) IN
            IF IsFloatText(g.seconds)
            THEN [acc EXCEPT !.end_time =
                     Some(TotalDuration(ParseInt(g.hours), ParseInt(g.minutes),
                                        ParseFloat(g.seconds)))]
            ELSE [acc EXCEPT !.raised = "ValueError"]
        ELSE acc

\* lines 73-88: the loop over the lines, until one of them raises
RECURSIVE Scan(_, _, _)
Scan(acc, st, ls) ==
    IF ls = <<>> \/ acc.raised # "" THEN acc
    ELSE Scan(ScanStep(acc, st, Head(ls)), st, Tail(ls))

\* faulty variant: a stream without silence starts its chunk at 0
ChunkStartsFromZero(starts, st) ==
    IF Len(starts) = 0 THEN Append(starts, 0) ELSE starts

\* lines 90-92: no silence found
ChunkStartsAfterScan(starts, st) ==
    IF Len(starts) = 0 THEN Append(starts, Val(st)) ELSE starts

\* line 96: the end appended when the stream finished with non-silence
EffectiveEnd(et) == PyOr(et, Sentinel)

\* faulty variant: a known end time clips the end of the last chunk
ChunkEndsClipped(starts, ends, et) ==
    IF Len(starts) > Len(ends) THEN Append(ends, PyOr(et, Sentinel))
    ELSE IF ~IsNone(et) /\ ends # <<>> /\ ends[Len(ends)] > Val(et)
         THEN [ends EXCEPT ![Len(ends)] = Val(et)]
    ELSE ends

\* faulty variant: no end is appended for a stream that finished with non-silence
ChunkEndsNeverAppended(starts, ends, et) == ends

\* lines 94-96: finished with non-silence
ChunkEndsAfterScan(starts, ends, et) ==
    IF Len(starts) > Len(ends) THEN Append(ends, EffectiveEnd(et)) ELSE ends

\* faulty variant: zip(chunk_ends, chunk_starts)
ZipSwapped(a, b) ==
    LET n == IF Len(a) < Len(b) THEN Len(a) ELSE Len(b)
    IN  [j \in 1..n |-> <<b[j], a[j]>>]

\* line 98: list(zip(chunk_starts, chunk_ends))
Zip(a, b) ==
    LET n == IF Len(a) < Len(b) THEN Len(a) ELSE Len(b)
    IN  [j \in 1..n |-> <<a[j], b[j]>>]

----------------------------------------------------------------------------
(* Formatting, lines 127-132, and _makedirs, lines 101-108.                *)

RECURSIVE Digits(_)
Digits(n) ==
    IF n < 10 THEN <<DigitChar(n)>>
    ELSE Append(Digits(n \div 10), DigitChar(n % 10))

\* '{:.04f}'.format(x) of a time x
Format4f(x) ==
    LET a == IF x < 0 THEN 0 - x ELSE x
    IN  (IF x < 0 THEN <<"-">> ELSE <<>>)
          \o Digits(a \div Scale)
          \o <<".", DigitChar((a % Scale) \div 10), DigitChar(a % 10), "0", "0">>

\* the replacement fields of the patterns below
IndexFields == {"{}", "{i}", "{:04d}"}

\* faulty variant: every chunk is formatted as chunk 0
FormatFieldOfZero(tok, n) ==
    CASE tok \in {"{}", "{i}"} -> <<"0">>
      [] tok = "{:04d}" -> <<"0", "0", "0", "0">>
      [] OTHER -> <<tok>>

\* one piece of a pattern: a replacement field becomes the index, a literal stays
FormatField(tok, n) ==
    CASE tok = "{}" -> Digits(n)
      [] tok = "{i}" -> Digits(n)
      [] tok = "{:04d}" ->
             [j \in 1..(IF Len(Digits(n)) < 4 THEN 4 - Len(Digits(n)) ELSE 0) |-> "0"]
               \o Digits(n)
      [] OTHER -> <<tok>>

RECURSIVE FormatPieces(_, _)
FormatPieces(pieces, n) ==
    IF pieces = <<>> THEN <<>>
    ELSE FormatField(Head(pieces), n) \o FormatPieces(Tail(pieces), n)

\* line 127: out_pattern.format(i, i=i).  A path is its directory part and its
\* final component, each a sequence of pieces.
FormatPattern(pattern, n) ==
    [dir |-> FormatPieces(pattern.dir, n), base |-> FormatPieces(pattern.base, n)]

\* faulty variant: start and end change places in the record
MetadataRecordSwapped(out_filename, s, e) ==
    [filename |-> out_filename,
     start |-> Format4f(e),
     end |-> Format4f(s),
     duration |-> Format4f(e - s)]

\* lines 130-138: the record of one chunk
MetadataRecord(out_filename, s, e) ==
    [filename |-> out_filename,
     start |-> Format4f(s),
     end |-> Format4f(e),
     duration |-> Format4f(e - s)]

\* os.path.dirname(path)
Dirname(path) == path.dir

\* what os.makedirs can do at line 105, given the directories this run made
MakedirsOutcomes(path, made) ==
    IF path = <<>> THEN {"skipped"}
    ELSE IF path \in made THEN {"EEXIST_isdir"}
    ELSE {"created", "EEXIST_isdir", "EEXIST_notdir", "EACCES"}

\* faulty variant: EEXIST is swallowed whatever stands at the path
MakedirsRaisesUnlessExists(outcome) == outcome = "EACCES"

\* lines 106-108: the OSError is raised again
MakedirsRaises(outcome) == outcome \in {"EEXIST_notdir", "EACCES"}

MadeAfter(path, made, outcome) ==
    IF outcome = "created" THEN made \cup {path} ELSE made

----------------------------------------------------------------------------
(* The diagnostic streams of the engine.                                   *)

Tag == <<"[", "s", "d", "]">>

\* '[silencedetect @ ..] silence_start: 2.5'
StartLine(txt) == Tag \o SilenceStartLit \o txt

\* '[silencedetect @ ..] silence_end: 4 | silence_duration: ..'
EndLine(txt) == Tag \o SilenceEndLit \o txt \o <<" ", "|">>

\* 'size=N/A time=00:00:08.00 bitrate=N/A'
ProgressLine(clock) ==
    SizeLit \o <<"N", "/", "A">> \o TimeLit \o clock \o BitrateLit \o <<"N", "/", "A">>

Clock0 == <<"0", "0", ":", "0", "0", ":", "0", "0", ".", "0", "0">>
Clock8 == <<"0", "0", ":", "0", "0", ":", "0", "8", ".", "0", "0">>
ClockBad == <<"0", "0", ":", "0", "0", ":", "1", ".", "2", ".", "3">>

\* a silence start followed by a blank: no pattern matches it
NoiseLine == StartLine(<<"2", ".", "5">>) \o <<" ">>

LineSet ==
    { StartLine(<<"2", ".", "5">>), StartLine(<<"6">>),
      EndLine(<<"1", ".", "5">>), EndLine(<<"4">>),
      ProgressLine(Clock0), ProgressLine(Clock8), ProgressLine(ClockBad),
      NoiseLine }

RunLineSet == { StartLine(<<"2", ".", "5">>), EndLine(<<"4">>) }

\* matches the silence-start and the silence-end pattern: silence start first
StartAndEndLine == EndLine(<<"4">>) \o SilenceStartLit \o <<"6">>

\* matches the silence-end pattern and the duration pattern: silence end first
EndAndProgressLine == ProgressLine(Clock8) \o SilenceEndLit \o <<"4">> \o <<" ", "|">>

\* matches all three patterns: silence start first
AllThreeLine == ProgressLine(Clock8) \o SilenceEndLit \o <<"4">> \o SilenceStartLit \o <<"6">>

MixedLineSet ==
    { StartLine(<<"2", ".", "5">>), EndLine(<<"4">>), ProgressLine(Clock8),
      NoiseLine, StartAndEndLine, EndAndProgressLine, AllThreeLine }

\* lines for runs over malformed streams
AnyLineSet ==
    { StartLine(<<"2", ".", "5">>), EndLine(<<"4">>),
      ProgressLine(Clock0), ProgressLine(Clock8), ProgressLine(ClockBad) }

Streams(S, n) == UNION {[1..m -> S] : m \in 0..n}

\* out_pattern and metadata_filename of the command line
PatternIndexed == [dir |-> <<"out">>, base |-> <<"chunk_", "{:04d}", ".wav">>]
PatternDirs == [dir |-> <<"out_", "{i}">>, base |-> <<"chunk.wav">>]
PatternFixed == [dir |-> <<>>, base |-> <<"chunk.wav">>]
MetadataPath == [dir |-> <<"meta">>, base |-> <<"chunks.json">>]

\* The lines of the end-to-end scenario, each as its bare text and as the
\* engine writes it.
Text05 == <<"0", ".", "5", "0", "0", "0", "0", "0">>
Text32 == <<"3", ".", "2", "0", "0", "0", "0", "0">>
Text50 == <<"5", ".", "0", "0", "0", "0", "0", "0">>

\* 'silence_end: 0.500000'
BareEndLine(txt) == Tail(SilenceEndLit) \o txt

\* 'silence_start: 3.200000 '
BareStartLine(txt) == Tail(SilenceStartLit) \o txt \o <<" ">>

\* 'time=00:00:08.00'
BareProgressLine(clock) == Tail(TimeLit) \o clock

ScenarioStreams ==
    { <<a, b, c, d>> :
        a \in {BareEndLine(Text05), EndLine(Text05)},
        b \in {BareStartLine(Text32), StartLine(Text32) \o <<" ">>, StartLine(Text32)},
        c \in {BareEndLine(Text50), EndLine(Text50)},
        d \in {BareProgressLine(Clock8), ProgressLine(Clock8)} }

\* what the three searches of lines 74-76 find in each line of the streams:
\* computed once for every line
AllLines ==
    LineSet \cup RunLineSet \cup MixedLineSet \cup AnyLineSet
      \cup UNION {{st[j] : j \in DOMAIN st} : st \in ScenarioStreams}

Matches ==
    [line \in AllLines |->
        [silence_start_match  |-> silence_start_re(line),
         silence_end_match    |-> silence_end_re(line),
         total_duration_match |-> total_duration_re(line)]]

\* the scenario as the engine writes it, the silence start ending its line
ScenarioEngineStream ==
    <<EndLine(Text05), StartLine(Text32), EndLine(Text50), ProgressLine(Clock8)>>

\* the same with a blank after the silence start
ScenarioBlankStream ==
    <<EndLine(Text05), StartLine(Text32) \o <<" ">>, EndLine(Text50),
      ProgressLine(Clock8)>>

----------------------------------------------------------------------------
VARIABLES
    pc,                  \* where the run stands
    args,                \* the arguments split_audio was called with
    diag,                \* what the analysis child writes on its stderr
    start_time, end_time,\* the locals of these names (rebound by lines 50, 88, 125)
    lines, k,            \* line 68, and the position of the loop of line 73
    chunk_starts, chunk_ends,
    chunk_times, i, metadata,
    running,             \* the child processes that have not exited
    launched,            \* the extraction commands of line 146, in order
    returncodes,         \* child.returncode of each extraction, in order
    analysis_returncode, \* child.returncode of line 64
    stderr,              \* what was written to sys.stderr
    exit_code, raised,   \* how the process ended
    made_dirs,           \* the directories os.makedirs created
    makedirs_call,       \* the last call of _makedirs: what for, and how it went
    metadata_file        \* the document of line 163, once written

vars == <<pc, args, diag, start_time, end_time, lines, k, chunk_starts, chunk_ends,
          chunk_times, i, metadata, running, launched, returncodes,
          analysis_returncode, stderr, exit_code, raised, made_dirs, makedirs_call,
          metadata_file>>

InitLocals ==
    /\ pc = "start"
    /\ start_time = None /\ end_time = None
    /\ lines = <<>> /\ k = 0
    /\ chunk_starts = <<>> /\ chunk_ends = <<>>
    /\ chunk_times = <<>> /\ i = 0 /\ metadata = <<>>
    /\ running = {} /\ launched = <<>> /\ returncodes = <<>>
    /\ analysis_returncode = None
    /\ stderr = <<>>
    /\ exit_code = None /\ raised = ""
    /\ made_dirs = {}
    /\ makedirs_call = <<>>
    /\ metadata_file = None

StartTimes == {None, Some(1 * Scale)}
EndTimes == {None, Some(0), Some(4 * Scale)}

\* every stream of at most MaxLines lines, every clipping
Init ==
    /\ InitLocals
    /\ diag \in Streams(LineSet, MaxLines)
    /\ args \in [start_time : StartTimes, end_time : EndTimes,
                 out_pattern : {PatternFixed},
                 metadata_filename : {None},
                 verbose : {FALSE}]

\* every way to write the chunks, for streams of silence markers
InitRun ==
    /\ InitLocals
    /\ diag \in Streams(RunLineSet, MaxLines + 1)
    /\ args \in [start_time : {None}, end_time : {None},
                 out_pattern : {PatternIndexed, PatternDirs, PatternFixed},
                 metadata_filename : {None, Some(MetadataPath)},
                 verbose : BOOLEAN]

\* the streams of the end-to-end scenario
InitScenario ==
    /\ InitLocals
    /\ diag \in ScenarioStreams
    /\ args \in [start_time : StartTimes, end_time : {None, Some(4 * Scale)},
                 out_pattern : {PatternIndexed},
                 metadata_filename : {None, Some(MetadataPath)},
                 verbose : {FALSE}]

----------------------------------------------------------------------------
(* The run: split_audio, lines 111-163, with get_chunk_times, lines 45-98. *)

\* sys.exit(1) and an uncaught exception both end the process with status 1
Exit(code, exc) ==
    /\ pc' = "exited"
    /\ exit_code' = Some(code)
    /\ raised' = exc

\* lines 122, 46-62: get_chunk_times is entered and starts the analysis child
Start ==
    /\ pc = "start"
    /\ start_time' = IF IsNone(args.start_time) THEN Some(0) ELSE args.start_time
    /\ end_time' = args.end_time
    /\ running' = running \cup {<<"analysis">>}
    /\ pc' = "analysis"
    /\ UNCHANGED <<args, diag, lines, k, chunk_starts, chunk_ends, chunk_times, i,
                   metadata, launched, returncodes, analysis_returncode, stderr,
                   exit_code, raised, made_dirs, makedirs_call, metadata_file>>

\* faulty variant: a failed analysis is reported but the run goes on
AnalysisExitGoesOn(rc) ==
    /\ pc = "analysis"
    /\ running' = running \ {<<"analysis">>}
    /\ analysis_returncode' = Some(rc)
    /\ stderr' = IF rc # 0 THEN Append(stderr, diag) ELSE stderr
    /\ lines' = diag
    /\ k' = 1
    /\ chunk_starts' = <<>>
    /\ chunk_ends' = <<>>
    /\ pc' = "scan"
    /\ UNCHANGED <<args, diag, start_time, end_time, chunk_times, i, metadata,
                   launched, returncodes, made_dirs, makedirs_call, metadata_file,
                   exit_code, raised>>

\* lines 63-72: communicate() returns when the analysis child has exited
AnalysisExit(rc) ==
    /\ pc = "analysis"
    /\ running' = running \ {<<"analysis">>}
    /\ analysis_returncode' = Some(rc)
    /\ IF rc # 0
       THEN /\ stderr' = Append(stderr, diag)
            /\ Exit(1, "SystemExit")
            /\ UNCHANGED <<lines, k, chunk_starts, chunk_ends>>
       ELSE /\ lines' = diag
            /\ k' = 1
            /\ chunk_starts' = <<>>
            /\ chunk_ends' = <<>>
            /\ pc' = "scan"
            /\ UNCHANGED <<stderr, exit_code, raised>>
    /\ UNCHANGED <<args, diag, start_time, end_time, chunk_times, i, metadata,
                   launched, returncodes, made_dirs, makedirs_call, metadata_file>>

\* lines 73-88: one iteration of the loop over the lines
ScanLine ==
    /\ pc = "scan"
    /\ k <= Len(lines)
    /\ \E acc \in {ScanStep([chunk_starts |-> chunk_starts, chunk_ends |-> chunk_ends,
                             end_time |-> end_time, raised |-> ""],
                            start_time, lines[k])} :
           /\ chunk_starts' = acc.chunk_starts
           /\ chunk_ends' = acc.chunk_ends
           /\ end_time' = acc.end_time
           /\ IF acc.raised # ""
              THEN Exit(1, acc.raised) /\ UNCHANGED k
              ELSE k' = k + 1 /\ UNCHANGED <<pc, exit_code, raised>>
    /\ UNCHANGED <<args, diag, start_time, lines, chunk_times, i, metadata, running,
                   launched, returncodes, analysis_returncode, stderr, made_dirs,
                   makedirs_call, metadata_file>>

\* lines 90-98, 122-124: the loop is over, get_chunk_times returns
Return ==
    /\ pc = "scan"
    /\ k > Len(lines)
    /\ LET starts == ChunkStartsAfterScan(chunk_starts, start_time)
           ends   == ChunkEndsAfterScan(starts, chunk_ends, end_time)
       IN  /\ chunk_starts' = starts
           /\ chunk_ends' = ends
           /\ chunk_times' = Zip(starts, ends)
    /\ metadata' = <<>>
    /\ i' = 0
    /\ pc' = "loop"
    /\ UNCHANGED <<args, diag, start_time, end_time, lines, k, running, launched,
                   returncodes, analysis_returncode, stderr, exit_code, raised,
                   made_dirs, makedirs_call, metadata_file>>

\* lines 125-154: chunk i is prepared and its extraction child is started
ExtractLaunch(outcome) ==
    /\ pc = "loop"
    /\ i < Len(chunk_times)
    /\ LET s == chunk_times[i + 1][1]
           e == chunk_times[i + 1][2]
           time == e - s
           out_filename == FormatPattern(args.out_pattern, i)
       IN  /\ outcome \in MakedirsOutcomes(Dirname(out_filename), made_dirs)
           /\ start_time' = Some(s)
           /\ end_time' = Some(e)
           /\ made_dirs' = MadeAfter(Dirname(out_filename), made_dirs, outcome)
           /\ makedirs_call' = <<"chunk", outcome>>
           /\ IF MakedirsRaises(outcome)
              THEN /\ Exit(1, "OSError")
                   /\ UNCHANGED <<metadata, launched, running>>
              ELSE /\ metadata' = Append(metadata, MetadataRecord(out_filename, s, e))
                   /\ launched' = Append(launched,
                                     [i |-> i, out |-> out_filename, ss |-> s, t |-> time])
                   /\ running' = running \cup {<<"extract", i>>}
                   /\ pc' = "extract"
                   /\ UNCHANGED <<exit_code, raised>>
    /\ UNCHANGED <<args, diag, lines, k, chunk_starts, chunk_ends, chunk_times, i,
                   returncodes, analysis_returncode, stderr, metadata_file>>

\* faulty variant: a failed extraction ends the run, as a failed analysis does
ExtractExitFatal(rc) ==
    /\ pc = "extract"
    /\ running' = running \ {<<"extract", i>>}
    /\ returncodes' = Append(returncodes, rc)
    /\ stderr' = IF rc # 0 /\ ~args.verbose
                 THEN Append(stderr, <<"extract", i>>) ELSE stderr
    /\ i' = i + 1
    /\ IF rc # 0 THEN Exit(1, "SystemExit")
       ELSE pc' = "loop" /\ UNCHANGED <<exit_code, raised>>
    /\ UNCHANGED <<args, diag, start_time, end_time, lines, k, chunk_starts,
                   chunk_ends, chunk_times, metadata, launched, analysis_returncode,
                   made_dirs, makedirs_call, metadata_file>>

\* faulty variant: the loop goes on without waiting for the child to exit
ExtractExitNotAwaited(rc) ==
    /\ pc = "extract"
    /\ returncodes' = Append(returncodes, rc)
    /\ stderr' = IF rc # 0 /\ ~args.verbose
                 THEN Append(stderr, <<"extract", i>>) ELSE stderr
    /\ i' = i + 1
    /\ pc' = "loop"
    /\ UNCHANGED <<args, diag, start_time, end_time, lines, k, chunk_starts,
                   chunk_ends, chunk_times, metadata, launched, analysis_returncode,
                   exit_code, raised, made_dirs, makedirs_call, metadata_file, running>>

\* faulty variant: the metadata is dumped inside the loop, after each chunk
ExtractExitDumpsMetadata(rc) ==
    /\ pc = "extract"
    /\ running' = running \ {<<"extract", i>>}
    /\ returncodes' = Append(returncodes, rc)
    /\ stderr' = IF rc # 0 /\ ~args.verbose
                 THEN Append(stderr, <<"extract", i>>) ELSE stderr
    /\ i' = i + 1
    /\ pc' = "loop"
    /\ metadata_file' = IF IsNone(args.metadata_filename) THEN metadata_file
                        ELSE Some(metadata)
    /\ UNCHANGED <<args, diag, start_time, end_time, lines, k, chunk_starts,
                   chunk_ends, chunk_times, metadata, launched, analysis_returncode,
                   exit_code, raised, made_dirs, makedirs_call>>

\* lines 155-158: communicate() returns when the extraction child has exited
ExtractExit(rc) ==
    /\ pc = "extract"
    /\ running' = running \ {<<"extract", i>>}
    /\ returncodes' = Append(returncodes, rc)
    /\ stderr' = IF rc # 0 /\ ~args.verbose
                 THEN Append(stderr, <<"extract", i>>) ELSE stderr
    /\ i' = i + 1
    /\ pc' = "loop"
    /\ UNCHANGED <<args, diag, start_time, end_time, lines, k, chunk_starts,
                   chunk_ends, chunk_times, metadata, launched, analysis_returncode,
                   exit_code, raised, made_dirs, makedirs_call, metadata_file>>

\* lines 160-163: after the loop the metadata is written, and the process ends
Finish(outcome) ==
    /\ pc = "loop"
    /\ i = Len(chunk_times)
    /\ IF IsNone(args.metadata_filename)
       THEN /\ outcome = "skipped"
            /\ Exit(0, "")
            /\ UNCHANGED <<made_dirs, makedirs_call, metadata_file>>
       ELSE LET dir == Dirname(Val(args.metadata_filename)) IN
            /\ outcome \in MakedirsOutcomes(dir, made_dirs)
            /\ made_dirs' = MadeAfter(dir, made_dirs, outcome)
            /\ makedirs_call' = <<"metadata", outcome>>
            /\ IF MakedirsRaises(outcome)
               THEN Exit(1, "OSError") /\ UNCHANGED metadata_file
               ELSE Exit(0, "") /\ metadata_file' = Some(metadata)
    /\ UNCHANGED <<args, diag, start_time, end_time, lines, k, chunk_starts,
                   chunk_ends, chunk_times, i, metadata, running, launched,
                   returncodes, analysis_returncode, stderr>>

ReturnCodes == {0, 1}
Outcomes == {"skipped", "created", "EEXIST_isdir", "EEXIST_notdir", "EACCES"}

Next ==
    \/ Start
    \/ \E rc \in ReturnCodes : AnalysisExit(rc)
    \/ ScanLine
    \/ Return
    \/ \E outcome \in Outcomes : ExtractLaunch(outcome)
    \/ \E rc \in ReturnCodes : ExtractExit(rc)
    \/ \E outcome \in Outcomes : Finish(outcome)

Spec == Init /\ [][Next]_vars

SpecRun == InitRun /\ [][Next]_vars

SpecScenario == InitScenario /\ [][Next]_vars

----------------------------------------------------------------------------
(* What a stream says, read off its lines as lines 74-84 classify them.    *)

IsSilenceStart(line) == ~IsNone(Matches[line].silence_start_match)

IsSilenceEnd(line) ==
    /\ IsNone(Matches[line].silence_start_match)
    /\ ~IsNone(Matches[line].silence_end_match)

IsMarker(line) == IsSilenceStart(line) \/ IsSilenceEnd(line)

IsDurationReport(line) ==
    /\ IsNone(Matches[line].silence_start_match)
    /\ IsNone(Matches[line].silence_end_match)
    /\ ~IsNone(Matches[line].total_duration_match)

MarkerTime(line) ==
    IF IsSilenceStart(line) THEN ParseFloat(Val(Matches[line].silence_start_match))
    ELSE ParseFloat(Val(Matches[line].silence_end_match))

ReportedDuration(line) ==
    LET g == Val(Matches[line].total_duration_match)
    IN  TotalDuration(ParseInt(g.hours), ParseInt(g.minutes), ParseFloat(g.seconds))

Markers(ls) == SelectSeq(ls, IsMarker)
Reports(ls) == SelectSeq(ls, IsDurationReport)
NumStarts(ls) == Len(SelectSeq(ls, IsSilenceStart))
NumEnds(ls) == Len(SelectSeq(ls, IsSilenceEnd))

RECURSIVE Times(_)
Times(ls) == IF ls = <<>> THEN <<>> ELSE <<MarkerTime(Head(ls))>> \o Times(Tail(ls))

FirstMarkerIsStart(ls) == Markers(ls) # <<>> /\ IsSilenceStart(Head(Markers(ls)))
FirstMarkerIsEnd(ls) == Markers(ls) # <<>> /\ IsSilenceEnd(Head(Markers(ls)))

\* the given startTime, or 0 when none was given
EffectiveStart == IF IsNone(args.start_time) THEN 0 ELSE Val(args.start_time)

\* the last reported duration, else the explicit endTime, else the sentinel
StatedEnd(ls) ==
    IF Reports(ls) # <<>> THEN ReportedDuration(Reports(ls)[Len(Reports(ls))])
    ELSE IF ~IsNone(args.end_time) THEN Val(args.end_time)
    ELSE Sentinel

\* get_chunk_times has just returned: line 122 holds its list in chunk_times,
\* chunk_starts and chunk_ends are as lines 90-96 left them
Returned == pc = "loop" /\ i = 0

\* silence starts and silence ends take turns
Alternating(ms) ==
    \A j \in 1..(Len(ms) - 1) : IsSilenceStart(ms[j]) # IsSilenceStart(ms[j + 1])

\* the markers' times grow strictly
Increasing(ms) ==
    \A j \in 1..(Len(ms) - 1) : MarkerTime(ms[j]) < MarkerTime(ms[j + 1])

AllProper(times) == \A j \in 1..Len(times) : times[j][1] < times[j][2]

----------------------------------------------------------------------------
(* C1.  As claimed: a stream with as many silence starts as silence ends   *)
(* yields that many intervals.                                             *)
C1_AsClaimed ==
    (Returned /\ NumStarts(lines) = NumEnds(lines))
        => Len(chunk_times) = NumStarts(lines)

(* C1, amended.  A stream with as many silence starts as silence ends      *)
(* yields that many intervals when its first marker is a silence end, and  *)
(* one more when its first marker is a silence start or it has no marker.  *)
C1_IntervalCount ==
    (Returned /\ NumStarts(lines) = NumEnds(lines))
        => Len(chunk_times) =
               IF FirstMarkerIsEnd(lines) THEN NumStarts(lines)
               ELSE NumStarts(lines) + 1

C1_Witness ==
    /\ Returned
    /\ NumStarts(lines) = 1 /\ NumEnds(lines) = 1
    /\ FirstMarkerIsStart(lines)
    /\ Len(chunk_times) = 2

(* C2.  As claimed: in a stream whose markers alternate, with strictly     *)
(* growing times no earlier than the effective start and no later than     *)
(* the effective end, every interval has start < end.                      *)
C2_AsClaimed ==
    LET ms == Markers(lines) IN
    ( /\ Returned
      /\ Alternating(ms) /\ Increasing(ms)
      /\ \A j \in 1..Len(ms) : /\ EffectiveStart <= MarkerTime(ms[j])
                               /\ MarkerTime(ms[j]) <= StatedEnd(lines) )
        => AllProper(chunk_times)

(* C2, amended.  In a stream whose markers alternate, with strictly        *)
(* growing times strictly between the effective start and the effective    *)
(* end, the effective start being earlier than the effective end, every    *)
(* interval has start < end.                                               *)
C2_ProperIntervals ==
    LET ms == Markers(lines) IN
    ( /\ Returned
      /\ Alternating(ms) /\ Increasing(ms)
      /\ EffectiveStart < StatedEnd(lines)
      /\ \A j \in 1..Len(ms) : /\ EffectiveStart < MarkerTime(ms[j])
                               /\ MarkerTime(ms[j]) < StatedEnd(lines) )
        => AllProper(chunk_times)

C2_Witness ==
    LET ms == Markers(lines) IN
    /\ Returned
    /\ Len(ms) >= 2 /\ Alternating(ms) /\ Increasing(ms)
    /\ EffectiveStart < StatedEnd(lines)
    /\ \A j \in 1..Len(ms) : /\ EffectiveStart < MarkerTime(ms[j])
                             /\ MarkerTime(ms[j]) < StatedEnd(lines)
    /\ Len(chunk_times) >= 2
    /\ Reports(lines) # <<>>

(* C3.  As claimed: when the scan leaves more chunk starts than chunk      *)
(* ends, the last interval ends at the last reported duration, whatever    *)
(* its value, else at the explicit endTime, else at the sentinel.          *)
(* (With a marker in the stream, line 96 appended an end exactly when      *)
(* chunk_ends is one longer than the number of silence starts.)            *)
C3_AsClaimed ==
    ( /\ Returned
      /\ Markers(lines) # <<>>
      /\ Len(chunk_ends) = NumStarts(lines) + 1 )
        => chunk_times[Len(chunk_times)][2] = StatedEnd(lines)

(* C4.  In a stream whose first marker is a silence start, the first       *)
(* interval runs from the effective start to that silence start, and the   *)
(* effective start is put in once: chunk_starts is the effective start     *)
(* followed by the times of the silence ends.                              *)
C4_LeadingNonSilence ==
    (Returned /\ FirstMarkerIsStart(lines))
        => /\ chunk_times[1] = <<EffectiveStart, MarkerTime(Head(Markers(lines)))>>
           /\ chunk_starts = <<EffectiveStart>> \o Times(SelectSeq(lines, IsSilenceEnd))

C4_Witness ==
    /\ Returned
    /\ FirstMarkerIsStart(lines)
    /\ NumStarts(lines) >= 2
    /\ NumEnds(lines) >= 1
    /\ ~IsNone(args.start_time)

(* C5.  As claimed: a stream without a marker yields the one interval      *)
(* from the effective start to the effective end (the last reported        *)
(* duration, else the explicit endTime, else the sentinel).                *)
C5_AsClaimed ==
    (Returned /\ Markers(lines) = <<>>)
        => chunk_times = << <<EffectiveStart, StatedEnd(lines)>> >>

(* C6.  As claimed: the lines 'silence_end: 0.500000', 'silence_start:     *)
(* 3.200000 ' with its trailing blank, 'silence_end: 5.000000' and a       *)
(* progress line with 'time=00:00:08.00', without startTime and endTime,   *)
(* are classified as named and yield [(0.5, 3.2), (5.0, 8.0)].             *)
ScenarioIntervals == << <<Scale \div 2, 3 * Scale + 2 * (Scale \div 10)>>,
                        <<5 * Scale, 8 * Scale>> >>

C6_AsClaimed ==
    ( /\ Returned
      /\ IsNone(args.start_time) /\ IsNone(args.end_time)
      /\ lines[2] \in {BareStartLine(Text32), StartLine(Text32) \o <<" ">>} )
        => /\ IsSilenceEnd(lines[1]) /\ IsSilenceStart(lines[2])
           /\ IsSilenceEnd(lines[3]) /\ IsDurationReport(lines[4])
           /\ chunk_times = ScenarioIntervals

(* C6, amended.  The engine's lines '.. silence_end: 0.500000 | ..', '..   *)
(* silence_start: 3.200000' ending with the number, '.. silence_end:       *)
(* 5.000000 | ..' and 'size=N/A time=00:00:08.00 bitrate=N/A', without     *)
(* startTime and endTime, are classified as named and yield [(0.5, 3.2),   *)
(* (5.0, 8.0)]; with a blank after the silence start that line is no       *)
(* event and the result is [(0.5, 8.0)].                                   *)
C6_Scenario ==
    (Returned /\ IsNone(args.start_time) /\ IsNone(args.end_time))
        => /\ lines = ScenarioEngineStream
                => /\ IsSilenceEnd(lines[1]) /\ IsSilenceStart(lines[2])
                   /\ IsSilenceEnd(lines[3]) /\ IsDurationReport(lines[4])
                   /\ chunk_times = ScenarioIntervals
           /\ lines = ScenarioBlankStream
                => /\ ~IsMarker(lines[2]) /\ ~IsDurationReport(lines[2])
                   /\ chunk_times = << <<Scale \div 2, 8 * Scale>> >>

C6_Witness ==
    /\ Returned
    /\ IsNone(args.start_time) /\ IsNone(args.end_time)
    /\ lines = ScenarioEngineStream
    /\ Len(chunk_times) = 2

(* C7.  A metadata document that is written has one record per interval,  *)
(* in interval order, record j holding the output path of index j and     *)
(* the start and end of interval j, whichever extractions failed; a run    *)
(* given a metadata path that ends without an exception has written it.   *)
C7_MetadataDocument ==
    /\ ~IsNone(metadata_file) =>
           LET doc == Val(metadata_file) IN
           /\ Len(doc) = Len(chunk_times)
           /\ \A j \in 1..Len(doc) :
                  /\ doc[j].filename = FormatPattern(args.out_pattern, j - 1)
                  /\ doc[j].start = Format4f(chunk_times[j][1])
                  /\ doc[j].end = Format4f(chunk_times[j][2])
    /\ (pc = "exited" /\ raised = "" /\ ~IsNone(args.metadata_filename))
           => ~IsNone(metadata_file)

C7_Witness ==
    /\ ~IsNone(metadata_file)
    /\ Len(Val(metadata_file)) >= 2
    /\ returncodes[1] # 0
    /\ Val(metadata_file)[1].end = <<"2", ".", "5", "0", "0", "0">>
    /\ Val(metadata_file)[2].filename.base = <<"chunk_", "0", "0", "0", "1", ".wav">>

(* C8.  The extractions are launched for the indices 0, 1, .. in order,    *)
(* each once; a run whose analysis succeeded ends short of the last        *)
(* interval only by an error creating a directory, never by an             *)
(* extraction's exit status, and a run that ends without an exception      *)
(* has launched all N extractions, awaited each, and exits with status 0.  *)
C8_EveryChunkExtractedOnce ==
    /\ \A j \in 1..Len(launched) : launched[j].i = j - 1
    /\ Len(launched) <= Len(chunk_times)
    /\ (pc = "exited" /\ analysis_returncode = Some(0) /\ raised # "ValueError")
           => /\ raised \in {"", "OSError"}
              /\ Len(launched) < Len(chunk_times) => raised = "OSError"
              /\ raised = "" => /\ Len(launched) = Len(chunk_times)
                                /\ Len(returncodes) = Len(chunk_times)
                                /\ exit_code = Some(0)

C8_Witness ==
    /\ pc = "exited" /\ raised = ""
    /\ Len(chunk_times) >= 2
    /\ Len(launched) = Len(chunk_times)
    /\ returncodes[1] # 0
    /\ exit_code = Some(0)

(* C9.  Once the analysis child has exited with a non-zero status the run  *)
(* has ended with exit status 1 and the child's diagnostic text on         *)
(* stderr; no extraction was launched, no directory made and no metadata   *)
(* written.                                                                *)
C9_AnalysisFailureAborts ==
    (~IsNone(analysis_returncode) /\ Val(analysis_returncode) # 0)
        => /\ pc = "exited"
           /\ exit_code = Some(1)
           /\ stderr = <<diag>>
           /\ launched = <<>>
           /\ running = {}
           /\ made_dirs = {}
           /\ IsNone(metadata_file)

C9_Witness ==
    /\ analysis_returncode = Some(1)
    /\ pc = "exited"
    /\ diag # <<>>
    /\ ~IsNone(args.metadata_filename)

(* C10.  At most one child runs at a time; the analysis child has exited   *)
(* before any extraction is launched; an extraction is launched only when  *)
(* every earlier one has exited.                                           *)
C10_OneChildAtATime ==
    /\ Cardinality(running) <= 1
    /\ launched # <<>> => /\ ~IsNone(analysis_returncode)
                          /\ <<"analysis">> \notin running
    /\ Len(launched) - Len(returncodes) \in {0, 1}
    /\ pc = "extract" => /\ running = {<<"extract", Len(launched) - 1>>}
                         /\ Len(returncodes) = Len(launched) - 1
    /\ pc = "analysis" => running = {<<"analysis">>}
    /\ pc \notin {"analysis", "extract"} => running = {}

C10_Witness ==
    /\ pc = "extract"
    /\ Len(launched) >= 2
    /\ running = {<<"extract", 1>>}

(* C12.  In a stream whose markers alternate with non-decreasing times,   *)
(* consecutive intervals do not overlap and are the complement of the      *)
(* silence spans: interval j ends at the j-th silence start, interval      *)
(* j + 1 starts at the silence end that follows it in the stream, and the  *)
(* first is not later than the second.                                     *)
NonDecreasing(ms) ==
    \A j \in 1..(Len(ms) - 1) : MarkerTime(ms[j]) <= MarkerTime(ms[j + 1])

\* where the j-th silence start stands among alternating markers
StartPosition(ms, j) == IF IsSilenceStart(ms[1]) THEN 2 * j - 1 ELSE 2 * j

C12_ComplementOfSilence ==
    LET ms == Markers(lines) IN
    (Returned /\ Alternating(ms) /\ NonDecreasing(ms))
        => \A j \in 1..(Len(chunk_times) - 1) :
               LET p == StartPosition(ms, j) IN
               /\ p + 1 <= Len(ms)
               /\ IsSilenceStart(ms[p]) /\ IsSilenceEnd(ms[p + 1])
               /\ chunk_times[j][2] = MarkerTime(ms[p])
               /\ chunk_times[j + 1][1] = MarkerTime(ms[p + 1])
               /\ chunk_times[j][2] <= chunk_times[j + 1][1]

C12_Witness ==
    LET ms == Markers(lines) IN
    /\ Returned
    /\ Len(ms) = 3 /\ Alternating(ms) /\ NonDecreasing(ms)
    /\ IsSilenceStart(ms[1])
    /\ Len(chunk_times) = 2
    /\ chunk_times[1][2] < chunk_times[2][1]


----------------------------------------------------------------------------
(* Streams of lines that match more than one of the three patterns,       *)
(* together with lines that match exactly one or none.                     *)

\* every stream of at most MaxLines of these lines
InitMixed ==
    /\ InitLocals
    /\ diag \in Streams(MixedLineSet, MaxLines)
    /\ args \in [start_time : StartTimes, end_time : {None, Some(4 * Scale)},
                 out_pattern : {PatternFixed},
                 metadata_filename : {None},
                 verbose : {FALSE}]

SpecMixed == InitMixed /\ [][Next]_vars

\* get_chunk_times as a function of the stream and the two arguments
get_chunk_times(ls, st_arg, et_arg) ==
    LET st     == IF IsNone(st_arg) THEN Some(0) ELSE st_arg
        acc    == Scan([chunk_starts |-> <<>>, chunk_ends |-> <<>>,
                        end_time |-> et_arg, raised |-> ""], st, ls)
        starts == ChunkStartsAfterScan(acc.chunk_starts, st)
        ends   == ChunkEndsAfterScan(starts, acc.chunk_ends, acc.end_time)
    IN  Zip(starts, ends)

MatchesNone(line) ==
    /\ IsNone(Matches[line].silence_start_match)
    /\ IsNone(Matches[line].silence_end_match)
    /\ IsNone(Matches[line].total_duration_match)

MatchesSome(line) == ~MatchesNone(line)

\* the lines the loop of line 73 has gone through
Scanned == SubSeq(lines, 1, k - 1)

(* C13.  During the scan the chunk ends are the times of the lines that    *)
(* match the silence-start pattern, the chunk starts are the times of the  *)
(* lines that match the silence-end pattern and not the silence-start      *)
(* pattern (after the start time, when the first marker is a silence       *)
(* start), and the end time is that of the last line matching only the     *)
(* duration pattern: a line matching no pattern changes nothing and every  *)
(* line counts once, by that precedence.  The returned intervals are those *)
(* of the stream without its non-matching lines.                           *)
C13_NonMatchingLinesIgnored ==
    /\ pc = "scan" =>
         /\ chunk_ends = Times(SelectSeq(Scanned, IsSilenceStart))
         /\ chunk_starts =
                (IF FirstMarkerIsStart(Scanned) THEN <<EffectiveStart>> ELSE <<>>)
                    \o Times(SelectSeq(Scanned, IsSilenceEnd))
         /\ end_time =
                IF Reports(Scanned) # <<>>
                THEN Some(ReportedDuration(Reports(Scanned)[Len(Reports(Scanned))]))
                ELSE args.end_time
         /\ Len(chunk_starts) + Len(chunk_ends) <= Len(Scanned) + 1
    /\ Returned =>
         chunk_times = get_chunk_times(SelectSeq(lines, MatchesSome),
                                       args.start_time, args.end_time)

C13_Witness ==
    /\ Returned
    /\ Len(lines) = 3
    /\ lines[1] = AllThreeLine
    /\ lines[2] = NoiseLine
    /\ lines[3] = EndAndProgressLine
    /\ chunk_times = <<<<EffectiveStart, 6 * Scale>>, <<4 * Scale, EffectiveEnd(args.end_time)>>>>


----------------------------------------------------------------------------
(* C14.  The metadata document exists only if a metadata path was given    *)
(* and only once every extraction child has been started and has exited;   *)
(* it is written by one step, from no document to the complete one, taken  *)
(* after the loop over the chunks, and never written again.                *)
C14_MetadataWrittenOnceAtTheEnd ==
    /\ [](~IsNone(metadata_file) =>
            /\ ~IsNone(args.metadata_filename)
            /\ pc = "exited"
            /\ running = {}
            /\ Len(launched) = Len(chunk_times)
            /\ Len(returncodes) = Len(chunk_times)
            /\ Val(metadata_file) = metadata)
    /\ [][metadata_file' # metadata_file =>
            /\ IsNone(metadata_file)
            /\ pc = "loop" /\ i = Len(chunk_times)
            /\ running = {}
            /\ Len(returncodes) = Len(chunk_times)]_vars

C14_Witness ==
    /\ pc = "exited"
    /\ ~IsNone(metadata_file)
    /\ Len(Val(metadata_file)) = Len(chunk_times)
    /\ Len(chunk_times) >= 2
    /\ \E j \in 1..Len(returncodes) : returncodes[j] # 0


----------------------------------------------------------------------------
(* C15.  As claimed: when creating a chunk's directory fails because the   *)
(* path already exists, the run is not ended by it.                        *)
C15_AsClaimed ==
    (/\ Len(makedirs_call) = 2
     /\ makedirs_call[1] = "chunk"
     /\ makedirs_call[2] \in {"EEXIST_isdir", "EEXIST_notdir"})
        => raised = ""

(* C15, amended.  When creating a chunk's directory fails because the path *)
(* exists and is a directory, the run goes on: that chunk's extraction is  *)
(* started, and the run can only end normally.  When it fails because the  *)
(* path exists and is not a directory, or for any other reason, the run    *)
(* ends there with the error: no extraction is started for that chunk or a *)
(* later one, and no metadata is written.                                  *)
C15_ExistingDirectoryOnly ==
    /\ makedirs_call = <<"chunk", "EEXIST_isdir">> =>
         /\ raised = ""
         /\ exit_code \in {None, Some(0)}
         /\ pc \in {"extract", "loop", "exited"}
         /\ pc = "extract" =>
              /\ Len(launched) = i + 1
              /\ launched[i + 1].i = i
              /\ running = {<<"extract", i>>}
         /\ pc # "extract" => Len(launched) = i
    /\ (/\ Len(makedirs_call) = 2
        /\ makedirs_call[1] = "chunk"
        /\ makedirs_call[2] \in {"EEXIST_notdir", "EACCES"}) =>
         /\ pc = "exited"
         /\ raised = "OSError"
         /\ exit_code = Some(1)
         /\ i < Len(chunk_times)
         /\ Len(launched) = i
         /\ Len(returncodes) = i
         /\ running = {}
         /\ IsNone(metadata_file)

C15_Witness ==
    /\ makedirs_call = <<"chunk", "EEXIST_notdir">>
    /\ pc = "exited"
    /\ raised = "OSError"
    /\ ~IsNone(args.metadata_filename)
    /\ i = 1
    /\ Len(chunk_times) >= 2


----------------------------------------------------------------------------
\* the pattern holds a replacement field for the index
HasIndexField(pattern) ==
    \/ \E j \in 1..Len(pattern.dir) : pattern.dir[j] \in IndexFields
    \/ \E j \in 1..Len(pattern.base) : pattern.base[j] \in IndexFields

(* C16.  As claimed: no two extraction commands of a run write the same    *)
(* output path.                                                            *)
C16_AsClaimed ==
    \A a, b \in 1..Len(launched) : a # b => launched[a].out # launched[b].out

(* C16, amended.  The output path of the extraction command for chunk i is *)
(* the output pattern with i substituted, and when the pattern holds a     *)
(* replacement field for the index no two extraction commands of a run     *)
(* write the same output path.                                             *)
C16_DistinctPathsWithIndexField ==
    /\ \A a \in 1..Len(launched) :
           /\ launched[a].i = a - 1
           /\ launched[a].out = FormatPattern(args.out_pattern, a - 1)
    /\ HasIndexField(args.out_pattern) =>
           \A a, b \in 1..Len(launched) : a # b => launched[a].out # launched[b].out

C16_Witness ==
    /\ pc = "exited"
    /\ raised = ""
    /\ args.out_pattern = PatternDirs
    /\ Len(launched) >= 3
    /\ launched[1].out # launched[3].out


----------------------------------------------------------------------------
(* Runs over malformed streams, with every clipping and with chunks        *)
(* written to a directory or not.                                          *)

InitAny ==
    /\ InitLocals
    /\ diag \in Streams(AnyLineSet, MaxLines)
    /\ args \in [start_time : StartTimes, end_time : EndTimes,
                 out_pattern : {PatternIndexed, PatternFixed},
                 metadata_filename : {None},
                 verbose : {FALSE}]

SpecAny == InitAny /\ [][Next]_vars

\* the analysis child has exited with status 0 and the run is over
EndedAfterAnalysis == pc = "exited" /\ analysis_returncode = Some(0)

----------------------------------------------------------------------------
\* the values line 96 can append: the last reported duration, the explicit
\* endTime, the sentinel
EndValues(ls) ==
    LET reports == Reports(ls) IN
    {Sentinel}
      \cup (IF reports # <<>> THEN {ReportedDuration(reports[Len(reports)])} ELSE {})
      \cup (IF ~IsNone(args.end_time) THEN {Val(args.end_time)} ELSE {})

Range(f) == {f[x] : x \in DOMAIN f}

(* C18.  Every returned start is the effective start time or the time of   *)
(* a silence end of the stream, and every returned end is the time of a    *)
(* silence start of the stream or one of the last reported duration, the   *)
(* explicit endTime and the sentinel.  The chunk starts are the times of   *)
(* the silence ends with the effective start put in front at most once,    *)
(* the chunk ends are the times of the silence starts with one such end    *)
(* value put behind at most once.                                          *)
C18_NoFabricatedBoundary ==
    Returned =>
        LET startTimes == Times(SelectSeq(lines, IsSilenceStart))
            endTimes   == Times(SelectSeq(lines, IsSilenceEnd))
            endValues  == EndValues(lines)
            starts     == {EffectiveStart} \cup Range(endTimes)
            ends       == Range(startTimes) \cup endValues
        IN  /\ \E ins \in {<<>>, <<EffectiveStart>>} : chunk_starts = ins \o endTimes
            /\ \E ins \in {<<>>} \cup {<<v>> : v \in endValues} :
                   chunk_ends = startTimes \o ins
            /\ \A j \in 1..Len(chunk_times) :
                   /\ chunk_times[j][1] \in starts
                   /\ chunk_times[j][2] \in ends

C18_Witness ==
    /\ Returned
    /\ NumStarts(lines) = 1 /\ NumEnds(lines) = 1 /\ Len(Reports(lines)) = 1
    /\ ~IsNone(args.start_time)
    /\ Len(chunk_starts) = 2 /\ chunk_starts[1] = EffectiveStart
    /\ Len(chunk_ends) = 2 /\ chunk_ends[2] = 8 * Scale
    /\ Len(chunk_times) = 2


----------------------------------------------------------------------------
\* the state the scan of the whole stream ends in (lines 71-88)
AfterScan ==
    Scan([chunk_starts |-> <<>>, chunk_ends |-> <<>>,
          end_time |-> args.end_time, raised |-> ""],
         IF IsNone(args.start_time) THEN Some(0) ELSE args.start_time, lines)

IsNotDurationReport(line) == ~IsDurationReport(line)

(* C19.  When the scan of the stream ends with chunk starts that are not   *)
(* empty and not more numerous than the chunk ends, the returned intervals *)
(* are those of the same stream without its duration reports and without   *)
(* an endTime: no duration report and no endTime changes them.  For any    *)
(* stream the two lists can differ in the end of the last interval only.   *)
WithoutEndTime ==
    get_chunk_times(SelectSeq(lines, IsNotDurationReport), args.start_time, None)

C19_EndTimeOnlyForTrailingNonSilence ==
    Returned =>
        LET scan  == AfterScan
            times == WithoutEndTime
        IN  /\ ( /\ scan.chunk_starts # <<>>
                 /\ Len(scan.chunk_starts) <= Len(scan.chunk_ends) )
                   => chunk_times = times
            /\ Len(chunk_times) = Len(times)
            /\ \A j \in 1..Len(chunk_times) :
                   /\ chunk_times[j][1] = times[j][1]
                   /\ j < Len(chunk_times) => chunk_times[j][2] = times[j][2]

C19_Witness ==
    /\ Returned
    /\ AfterScan.chunk_starts # <<>>
    /\ Len(AfterScan.chunk_starts) <= Len(AfterScan.chunk_ends)
    /\ Reports(lines) # <<>>
    /\ ~IsNone(args.end_time)
    /\ chunk_times[Len(chunk_times)][2] > Val(args.end_time)
    /\ chunk_times[Len(chunk_times)][2] > ReportedDuration(Reports(lines)[1])

====
